---- MODULE Spec2Model ----
(***************************************************************************)
(* HAMMER2 VFS operations (sys/fs/hammer2/hammer2_vfsops.c): the device    *)
(* registry (hammer2_mntlist), the PFS registries (hammer2_pfslist,        *)
(* hammer2_spmplist), mount and unmount.                                   *)
(*                                                                         *)
(* Pointers are small integers, 0 is NULL.  A kernel assertion that fails  *)
(* (KKASSERT, KASSERTMSG) or a fault halts the system: panic becomes       *)
(* non-empty and no further operation runs.                                *)
(***************************************************************************)
EXTENDS Integers, Sequences, FiniteSets, TLC

\* Number of mount(2)/unmount(2) calls in a behaviour.
MaxCalls == 4
\* Number of struct mount handles the VFS layer hands out at a time.
MaxMounts == 2
\* Number of hammer2_pfs_t objects that can be allocated at a time.
MaxPfs == 8
\* Size of the member arrays of a PFS (pfs_hmps[], pfs_names[], cluster.array[]).
HAMMER2_MAXCLUSTER == 2

\* The width of an inode number in bits.
TidBits == 4

\* sizeof(struct hfid): two uint16_t, padding to the alignment of
\* hammer2_tid_t, two hammer2_tid_t of 8 bytes.
SizeofHfid == 24

MntIds == 1..MaxMounts
PfsIds == 1..MaxPfs
Slots == 0..(HAMMER2_MAXCLUSTER - 1)

(***************************************************************************)
(* The environment: device vnodes and what is stored on the media.         *)
(***************************************************************************)
\* Device vnodes.  Vnodes 1 and 2 are two vnodes of the same block device
\* (same non-zero v_rdev); vnode 3 has no v_rdev.
Vnodes == {1, 2, 3}

v_rdev(vp) == IF vp \in {1, 2} THEN 7 ELSE 0

\* The underlying storage a vnode names.
StorageOf(vp) == IF v_rdev(vp) # 0 THEN <<"rdev", v_rdev(vp)>> ELSE <<"vnode", vp>>

\* One registered hammer2_dev_t per storage at most, plus one so that a
\* duplicate would be representable.
DevIds == 1..(Cardinality({StorageOf(vp) : vp \in Vnodes}) + 1)

\* The entries under the super-root of the media behind a root volume, in
\* key order.  The media behind vnodes 1/2 holds exactly DATA and ROOT with
\* distinct cluster ids; the media behind vnode 3 holds DATA and ROOT with
\* the same cluster id and one entry that is not an inode.
SuperRoot(vp) ==
    IF v_rdev(vp) = 7
    THEN << [filename |-> "DATA", pfs_clid |-> 1, pfs_type |-> "MASTER", bref_type |-> "INODE"],
            [filename |-> "ROOT", pfs_clid |-> 2, pfs_type |-> "MASTER", bref_type |-> "INODE"] >>
    ELSE << [filename |-> "DATA", pfs_clid |-> 1, pfs_type |-> "MASTER", bref_type |-> "INODE"],
            [filename |-> "JUNK", pfs_clid |-> 0, pfs_type |-> "NONE", bref_type |-> "DIRENT"],
            [filename |-> "ROOT", pfs_clid |-> 1, pfs_type |-> "SLAVE", bref_type |-> "INODE"] >>

\* The entries of the media whose read can fail while the super-root is
\* scanned: the scan can get their chain with chain->error set.
Flaky(vp) == IF v_rdev(vp) = 7 THEN {2} ELSE {1}

\* The cluster id stored in the super-root inode itself.
SuperRootClid(vp) == IF v_rdev(vp) = 7 THEN 8 ELSE 9

\* Device lists a mount request can name ({} is a label-only mount).
DevvplInputs == {{}, {1}, {2}, {3}}

\* Labels a mount request can name.
Labels == {"DATA", "ROOT", "JUNK"}

\* The step of hammer2_mount at which the environment makes it fail.
Faults == {"none", "init_devvp", "mountedon", "open", "volumes", "norootvol",
           "sroot_null", "sroot_error"}

\* Outcome of the label lookup under the super-root: the chain is returned
\* clean, returned with chain->error set, or the lookup fails with an error.
Lookups == {"ok", "chain_error", "io_error"}

(***************************************************************************)
(* Records                                                                 *)
(***************************************************************************)
NoChain == [hmp |-> 0, name |-> ""]

NoRip == [filename |-> "", pfs_clid |-> 0, pfs_type |-> "NONE"]

\* A hammer2_pfs_t that is not allocated (all fields zero).
FreePmp ==
    [alloc |-> FALSE, flags_spmp |-> FALSE, force_local |-> 0, pfs_clid |-> 0,
     iroot |-> FALSE, nchains |-> 0,
     chain |-> [i \in Slots |-> NoChain],
     pfs_types |-> [i \in Slots |-> "NONE"],
     pfs_names |-> [i \in Slots |-> ""],
     pfs_hmps |-> [i \in Slots |-> 0],
     mp |-> 0, spmp_hmp |-> 0]

\* A hammer2_dev_t that is not allocated (all fields zero).
FreeHmp ==
    [alloc |-> FALSE, devvp_list |-> {}, devvp |-> 0, hflags_local |-> FALSE,
     spmp |-> 0, mount_count |-> 0]

\* A struct mount the VFS layer has not handed out.
FreeMnt == [active |-> FALSE, mnt_data |-> 0]

Min(S) == CHOOSE x \in S : \A y \in S : x <= y

Max(S) == CHOOSE x \in S : \A y \in S : x >= y

SeqRemove(s, x) == SelectSeq(s, LAMBDA y : y # x)

SeqSet(s) == {s[k] : k \in 1..Len(s)}

Panic(W, msg) == [W EXCEPT !.panic = msg]

\* What hammer2_mntlk guards: the three lists, the mount_count of every
\* device, the member arrays of every PFS and both ends of every binding.
Shared(W) ==
    [mntlist |-> W.hammer2_mntlist, pfslist |-> W.hammer2_pfslist,
     spmplist |-> W.hammer2_spmplist,
     mount_count |-> [d \in DevIds |-> W.hmps[d].mount_count],
     members |-> [p \in PfsIds |-> [nchains |-> W.pmps[p].nchains,
                                     chain |-> W.pmps[p].chain,
                                     pfs_names |-> W.pmps[p].pfs_names,
                                     pfs_hmps |-> W.pmps[p].pfs_hmps]],
     mp |-> [p \in PfsIds |-> W.pmps[p].mp],
     mnt_data |-> [m \in MntIds |-> W.mnts[m].mnt_data]]

\* The record of what a call did: the device teardowns it ran or skipped
\* and the PFS it freed, in order, each with the state of the lock then.
LogCall(W, ev, id, count, ret, same) ==
    [W EXCEPT !.log = Append(@, [ev |-> ev, id |-> id, count |-> count,
                                 ret |-> ret, same |-> same,
                                 lk |-> W.mntlk])]

Log(W, ev, id, count) == LogCall(W, ev, id, count, "", TRUE)

\* The value of a statement sequence: {f(v) : v \in {e}} is "v = e; f(v)",
\* the one outcome of running f on the value the assignment gave v.
Only(S) == CHOOSE r \in S : TRUE

(***************************************************************************)
(* The mount lock                                                          *)
(***************************************************************************)
\* W.base is what the lock guards as it was when the lock was last free
\* for certain: at the start of the call or at the last release.  Taking
\* the lock records whether anything guarded has changed since then.
rw_enter_write(W) ==
    IF W.panic # "" THEN W
    ELSE IF W.mntlk # 0 THEN Panic(W, "rw_enter: locking against myself")
    ELSE [LogCall(W, "enter", 0, 0, "", Shared(W) = W.base) EXCEPT !.mntlk = 1]

rw_exit_write(W) ==
    IF W.panic # "" THEN W
    ELSE IF W.mntlk = 0 THEN Panic(W, "rw_exit: lock not held")
    ELSE [LogCall(W, "exit", 0, 0, "", TRUE) EXCEPT !.mntlk = 0,
                                                    !.base = Shared(W)]

\* The return of a call to the VFS layer, recorded with whether anything
\* guarded has changed since the lock was last free for certain.
Returned(W) ==
    IF W.panic # "" THEN W
    ELSE LogCall(W, "return", 0, 0, "", Shared(W) = W.base)

(***************************************************************************)
(* Device vnode handles                                                    *)
(***************************************************************************)
\* hammer2_open_devvp: opens every vnode of the list for the mount; vopen
\* counts the opens of each vnode.
hammer2_open_devvp(W, devvpl) ==
    [W EXCEPT !.vopen = [vp \in Vnodes |-> IF vp \in devvpl THEN @[vp] + 1 ELSE @[vp]]]

\* hammer2_close_devvp: closes every vnode of the list.
hammer2_close_devvp(W, devvpl) ==
    [W EXCEPT !.vopen = [vp \in Vnodes |->
                            IF vp \in devvpl /\ @[vp] > 0 THEN @[vp] - 1 ELSE @[vp]]]

\* vfs_mountedon: the vnode, or an alias of it, is mounted on.
vfs_mountedon(W, vp) ==
    \E vq \in Vnodes :
        /\ W.vopen[vq] > 0
        /\ vq = vp \/ (v_rdev(vq) # 0 /\ v_rdev(vq) = v_rdev(vp))

(***************************************************************************)
(* hammer2_pfsalloc                                                        *)
(***************************************************************************)
\* A faulty test that matches on the cluster id in every mode (rejected by
\* C8).
PfsMatch_Clid(pm, ripdata, force_local) ==
    /\ force_local = pm.force_local
    /\ pm.pfs_clid = ripdata.pfs_clid

\* The test of the lookup loop of hammer2_pfsalloc for one pmp of the list.
PfsMatch(pm, ripdata, force_local) ==
    /\ force_local = pm.force_local
    /\ \/ force_local = 0 /\ pm.pfs_clid = ripdata.pfs_clid
       \/ force_local # 0 /\ pm.pfs_names[0] # "" /\ pm.pfs_names[0] = ripdata.filename

\* A faulty lookup that matches a pmp by its first name alone, whatever
\* device it was forced local to (rejected by C27).
PfsLookup_AnyDevice(W, ripdata, force_local) ==
    LET hit == {k \in 1..Len(W.hammer2_pfslist) :
                    /\ W.pmps[W.hammer2_pfslist[k]].pfs_names[0] # ""
                    /\ W.pmps[W.hammer2_pfslist[k]].pfs_names[0] = ripdata.filename}
    IN  IF ripdata = NoRip \/ hit = {} THEN 0 ELSE W.hammer2_pfslist[Min(hit)]

\* The pmp the lookup loop stops at, 0 when it runs to the end of the list.
PfsLookup(W, ripdata, force_local) ==
    LET hit == {k \in 1..Len(W.hammer2_pfslist) :
                    PfsMatch(W.pmps[W.hammer2_pfslist[k]], ripdata, force_local)}
    IN  IF ripdata = NoRip \/ hit = {} THEN 0 ELSE W.hammer2_pfslist[Min(hit)]

\* The type recorded for a new member.
PfsMemberType(ripdata, force_local) ==
    IF force_local # 0 THEN "MASTER" ELSE ripdata.pfs_type

\* Attach chain as member j of pmp id (the part after "Stop here if no chain").
PfsAttach(W, id, chain, ripdata, force_local) ==
    LET j == W.pmps[id].nchains
    IN  IF j # 0 THEN Panic(W, "nchains not 0")
        ELSE [W EXCEPT
                !.pmps[id].chain[j] = chain,
                !.pmps[id].pfs_types[j] = PfsMemberType(ripdata, force_local),
                !.pmps[id].pfs_names[j] = ripdata.filename,
                !.pmps[id].pfs_hmps[j] = chain.hmp,
                !.pmps[id].nchains = j + 1,
                !.hmps[chain.hmp].mount_count =
                    IF W.pmps[id].mp # 0 THEN @ + 1 ELSE @]

\* A faulty choice that enters every new pmp in the PFS list (rejected by
\* C20).
OnSpmpList_Never(ripdata) == FALSE

\* A new pmp made without inode data is a Super-PFS: it gets
\* HAMMER2_PMPF_SPMP and goes on hammer2_spmplist, any other on
\* hammer2_pfslist.
OnSpmpList(ripdata) == ripdata = NoRip

\* Result: [w |-> the new state, pmp |-> the pmp returned].
hammer2_pfsalloc(W, chain, ripdata, force_local) ==
    IF W.panic # "" THEN [w |-> W, pmp |-> 0]
    ELSE IF force_local = 0
    THEN [w |-> Panic(W, "only local mount allowed"), pmp |-> 0]
    ELSE
    LET found == PfsLookup(W, ripdata, force_local)
        free == {p \in PfsIds : ~W.pmps[p].alloc}
        id == IF found # 0 THEN found ELSE IF free = {} THEN 0 ELSE Min(free)
    IN  IF id = 0 THEN [w |-> [W EXCEPT !.oom = TRUE], pmp |-> 0]
        ELSE
        LET W1 == IF found # 0 THEN W
                  ELSE [W EXCEPT
                          !.pmps[id] = [FreePmp EXCEPT
                                          !.alloc = TRUE,
                                          !.force_local = force_local,
                                          !.flags_spmp = OnSpmpList(ripdata),
                                          !.pfs_clid = ripdata.pfs_clid],
                          !.hammer2_pfslist =
                              IF ~OnSpmpList(ripdata) THEN Append(@, id) ELSE @,
                          !.hammer2_spmplist =
                              IF OnSpmpList(ripdata) THEN Append(@, id) ELSE @]
            \* Create the PFS's root inode (an empty cluster) when absent.
            W2 == IF W1.pmps[id].iroot THEN W1
                  ELSE [W1 EXCEPT !.pmps[id].iroot = TRUE,
                                  !.pmps[id].nchains = 0,
                                  !.pmps[id].chain = [i \in Slots |-> NoChain]]
        IN  IF chain = NoChain THEN [w |-> W2, pmp |-> id]
            ELSE [w |-> PfsAttach(W2, id, chain, ripdata, force_local), pmp |-> id]

(***************************************************************************)
(* hammer2_pfsfree, hammer2_pfsfree_scan                                   *)
(***************************************************************************)
\* A faulty reap that drops the root inode and leaves the pmp on its list
\* (rejected by C22).
hammer2_pfsfree_Listed(W, p) == [W EXCEPT !.pmps[p].iroot = FALSE]

hammer2_pfsfree(W, p) ==
    LET pm == W.pmps[p]
        W1 == [W EXCEPT
                 !.hammer2_spmplist = IF pm.flags_spmp THEN SeqRemove(@, p) ELSE @,
                 !.hammer2_pfslist = IF pm.flags_spmp THEN @ ELSE SeqRemove(@, p)]
        chains_still_present ==
            pm.iroot /\ \E i \in Slots : i < pm.nchains /\ pm.chain[i] # NoChain
    IN  IF chains_still_present
        THEN IF pm.mp = 0 THEN Panic(W1, "pfsfree: pmp->mp")
             ELSE [W1 EXCEPT !.pmps[p].iroot = FALSE]
        ELSE [W1 EXCEPT !.pmps[p] = FreePmp]

\* The pmp has no member: its root inode's cluster is empty and no slot
\* holds a chain or names a device.
NoMember(pm) ==
    /\ pm.nchains = 0
    /\ \A i \in Slots : pm.chain[i] = NoChain /\ pm.pfs_hmps[i] = 0

\* A faulty detach that forgets the device of a slot but keeps its chain
\* (rejected by C28).
PfsDetach_KeepChain(pm, hmp) ==
    [pm EXCEPT
       !.pfs_hmps = [i \in Slots |-> IF pm.pfs_hmps[i] = hmp THEN 0 ELSE @[i]]]

\* Remove the chain from matching elements of the PFS.
PfsDetach(pm, hmp) ==
    [pm EXCEPT
       !.chain = [i \in Slots |-> IF pm.pfs_hmps[i] = hmp THEN NoChain ELSE @[i]],
       !.pfs_types = [i \in Slots |-> IF pm.pfs_hmps[i] = hmp THEN "NONE" ELSE @[i]],
       !.pfs_names = [i \in Slots |-> IF pm.pfs_hmps[i] = hmp THEN "" ELSE @[i]],
       !.pfs_hmps = [i \in Slots |-> IF pm.pfs_hmps[i] = hmp THEN 0 ELSE @[i]]]

\* A faulty cleanup that counts the populated slots (rejected by C10).
PfsTrim_Count(pm) == Cardinality({i \in Slots : pm.pfs_hmps[i] # 0})

\* Cleanup trailing chains: index of the highest slot with a device, plus 1.
PfsTrim(pm) ==
    LET used == {i \in Slots : pm.pfs_hmps[i] # 0}
    IN  IF used = {} THEN 0 ELSE Max(used) + 1

RECURSIVE PfsfreeScanFrom(_, _, _, _)
\* The TAILQ_FOREACH of hammer2_pfsfree_scan from position k of the list;
\* "goto again" restarts at position 1.
PfsfreeScanFrom(W, hmp, which, k) ==
    LET wlist == IF which = 0 THEN W.hammer2_pfslist ELSE W.hammer2_spmplist
    IN  IF W.panic # "" \/ k > Len(wlist) THEN W
        ELSE
        LET p == wlist[k]
            pm == W.pmps[p]
        IN  IF ~pm.iroot \/ (\A i \in Slots : pm.pfs_hmps[i] # hmp)
            THEN PfsfreeScanFrom(W, hmp, which, k + 1)
            ELSE
            LET dm == PfsDetach(pm, hmp)
                n == PfsTrim(dm)
                \* "If this was the hmp's spmp, we need to clean a little
                \* more stuff out", then free the pmp and restart the loop.
                unhook(W1) == IF W1.hmps[hmp].spmp = p
                              THEN [W1 EXCEPT !.hmps[hmp].spmp = 0]
                              ELSE W1
                \* The restart is recorded with the number of entries
                \* the list has lost in this pass and with whether the pmp
                \* had no member left when hammer2_pfsfree was entered.
                reap(W1) == Only({PfsfreeScanFrom(
                                    LogCall(W3, "pfsfree", p,
                                        Len(wlist) - Len(IF which = 0
                                                         THEN W3.hammer2_pfslist
                                                         ELSE W3.hammer2_spmplist),
                                        "", NoMember(W1.pmps[p])),
                                    hmp, which, 1) :
                                    W3 \in {hammer2_pfsfree(W2, p) :
                                              W2 \in {unhook(W1)}}})
            IN  Only({IF n = 0 THEN reap(W1)
                      ELSE PfsfreeScanFrom(W1, hmp, which, k + 1) :
                        W1 \in {[W EXCEPT !.pmps[p] = [dm EXCEPT !.nchains = n]]}})

hammer2_pfsfree_scan(W, hmp, which) == PfsfreeScanFrom(W, hmp, which, 1)

(***************************************************************************)
(* hammer2_mount_helper, hammer2_unmount_helper                            *)
(***************************************************************************)
RECURSIVE ClusterCount(_, _, _, _)
\* The loop "for (i = 0; i < cluster->nchains; ++i)" of both helpers from
\* slot i on: adds delta to the mount_count of the device of every chain.
ClusterCount(W, pmp, i, delta) ==
    IF i >= W.pmps[pmp].nchains \/ i \notin Slots THEN W
    ELSE LET rchain == W.pmps[pmp].chain[i]
         IN  IF rchain = NoChain THEN ClusterCount(W, pmp, i + 1, delta)
             ELSE ClusterCount(
                    [W EXCEPT !.hmps[rchain.hmp].mount_count = @ + delta],
                    pmp, i + 1, delta)

hammer2_mount_helper(W, mp, pmp) ==
    IF W.panic # "" THEN W
    ELSE ClusterCount([W EXCEPT !.mnts[mp].mnt_data = pmp, !.pmps[pmp].mp = mp],
                      pmp, 0, 1)

\* A faulty removal that leaves the list as it is (rejected by C6).
MntlistRemove_Keep(W, hmp) == W

\* TAILQ_REMOVE(&hammer2_mntlist, hmp, mntentry).  An hmp that was never
\* inserted has a zeroed mntentry: the removal stores through its NULL
\* tqe_prev and the kernel faults.
MntlistRemove(W, hmp) ==
    IF hmp \in SeqSet(W.hammer2_mntlist)
    THEN [W EXCEPT !.hammer2_mntlist = SeqRemove(@, hmp)]
    ELSE Panic(W, "TAILQ_REMOVE: hmp not on hammer2_mntlist")

\* A faulty device teardown that ignores mount_count (rejected by C5).
hammer2_unmount_helper_dev_Always(W, hmp) ==
    LET W1 == hammer2_pfsfree_scan(W, hmp, 0)
        W2 == hammer2_pfsfree_scan(W1, hmp, 1)
    IN  [hammer2_close_devvp(W2, W2.hmps[hmp].devvp_list)
           EXCEPT !.hammer2_mntlist = SeqRemove(@, hmp), !.hmps[hmp] = FreeHmp]

\* A faulty test that lets every device be terminated (rejected by C11).
MountsStillExist_Never(W, hmp) == FALSE

\* "We can't terminate it if there are still PFSs referencing it."
MountsStillExist(W, hmp) == W.hmps[hmp].mount_count # 0

\* The device part of hammer2_unmount_helper (pmp == NULL, hmp supplied).
hammer2_unmount_helper_dev(W, hmp) ==
    IF W.panic # "" THEN W
    ELSE IF MountsStillExist(W, hmp)
    THEN Log(W, "skip", hmp, W.hmps[hmp].mount_count)
    ELSE
    LET \* TAILQ_REMOVE from the registry, then free(hmp)
        free(W4) == IF W4.panic # "" THEN W4
                    ELSE [W4 EXCEPT !.hmps[hmp] = FreeHmp]
        release(W3) == Only({free(W4) : W4 \in {MntlistRemove(W3, hmp)}})
        \* "Finish up with the device vnode"
        finish(W2) ==
            IF W2.panic # "" THEN W2
            ELSE IF W2.hmps[hmp].spmp # 0 THEN Panic(W2, "KKASSERT(hmp->spmp == NULL)")
            ELSE IF W2.hmps[hmp].devvp_list # {}
            THEN Only({release(W3) :
                         W3 \in {[hammer2_close_devvp(W2, W2.hmps[hmp].devvp_list)
                                    EXCEPT !.hmps[hmp].devvp_list = {}]}})
            ELSE release(W2)
    IN  Only({finish(W2) :
                W2 \in {hammer2_pfsfree_scan(W1, hmp, 1) :
                          W1 \in {hammer2_pfsfree_scan(W0, hmp, 0) :
                                    W0 \in {Log(W, "teardown", hmp,
                                                W.hmps[hmp].mount_count)}}}})

\* A faulty sweep that tears down the first device with mount_count == 0
\* and does not restart (rejected by C16).
UnmountSweep_Once(W) ==
    LET zero == {k \in 1..Len(W.hammer2_mntlist) :
                    W.hmps[W.hammer2_mntlist[k]].mount_count = 0}
    IN  IF W.panic # "" \/ zero = {} THEN W
        ELSE hammer2_unmount_helper_dev(W, W.hammer2_mntlist[Min(zero)])

RECURSIVE UnmountSweep(_)
\* The "again:" loop: tear down the first device with mount_count == 0 and
\* restart, until no device of the list has mount_count == 0.  Each
\* restart is recorded with the number of devices the list has lost in
\* this pass.
UnmountSweep(W) ==
    LET zero == {k \in 1..Len(W.hammer2_mntlist) :
                    W.hmps[W.hammer2_mntlist[k]].mount_count = 0}
    IN  IF W.panic # "" \/ zero = {} THEN W
        ELSE Only({UnmountSweep(
                     IF W1.panic # "" THEN W1
                     ELSE Log(W1, "again", W.hammer2_mntlist[Min(zero)],
                              Len(W.hammer2_mntlist) - Len(W1.hammer2_mntlist))) :
                     W1 \in {hammer2_unmount_helper_dev(
                                W, W.hammer2_mntlist[Min(zero)])}})

\* A faulty unhook that leaves mount_count alone (rejected by C1).
UnmountUnhook_NoCount(W, mp, pmp) ==
    [W EXCEPT !.mnts[mp].mnt_data = 0]

\* The PFS part of hammer2_unmount_helper (pmp supplied): unhook the mount
\* and account for mount_count.
UnmountUnhook(W, mp, pmp) ==
    ClusterCount([W EXCEPT !.mnts[mp].mnt_data = 0], pmp, 0, -1)

hammer2_unmount_helper(W, mp, pmp, hmp) ==
    IF W.panic # "" THEN W
    ELSE IF pmp # 0
    THEN IF hmp # 0 \/ W.mnts[mp].mnt_data # pmp
         THEN Panic(W, "KKASSERT in hammer2_unmount_helper")
         ELSE Only({UnmountSweep(W1) : W1 \in {UnmountUnhook(W, mp, pmp)}})
    ELSE hammer2_unmount_helper_dev(W, hmp)

(***************************************************************************)
(* hammer2_unmount                                                         *)
(***************************************************************************)
\* A faulty exit that rejects the call (rejected by C13).
UnmountNoBinding_Reject(W, mp) == [w |-> W, error |-> "EINVAL"]

\* "Still NULL during mount before hammer2_mount_helper() called."
UnmountNoBinding(W, mp) == [w |-> W, error |-> "OK"]

\* A faulty test that goes on after a failed flush (rejected by C14).
VflushFailed_Ignored(force, busy) == FALSE

\* error = vflush(mp, NULLVP, flags): vnodes that are still referenced make
\* it fail unless FORCECLOSE is given.
VflushFailed(force, busy) == busy /\ ~force

\* A faulty unmount that disconnects the mount and sweeps the devices
\* before it takes the lock (rejected by C21).
hammer2_unmount_LateLock(W, mp, force, vflushErr) ==
    IF W.panic # "" THEN [w |-> W, error |-> "PANIC"]
    ELSE IF W.mnts[mp].mnt_data = 0 THEN [w |-> W, error |-> "OK"]
    ELSE IF VflushFailed(force, vflushErr)
    THEN Only({[w |-> rw_exit_write(W1), error |-> "EBUSY"] :
                 W1 \in {rw_enter_write(W)}})
    ELSE Only({[w |-> rw_exit_write(W2), error |-> "OK"] :
                 W2 \in {rw_enter_write(W1) :
                           W1 \in {hammer2_unmount_helper(
                                      W, mp, W.mnts[mp].mnt_data, 0)}}})

\* Result: [w |-> the new state, error |-> the value returned].  vflush can
\* fail only when FORCECLOSE is not given.
hammer2_unmount(W, mp, force, vflushErr) ==
    LET pmp == W.mnts[mp].mnt_data
    IN  IF W.panic # "" THEN [w |-> W, error |-> "PANIC"]
        ELSE IF pmp = 0 THEN UnmountNoBinding(W, mp)
        ELSE IF W.pmps[pmp].mp = 0 \/ ~W.pmps[pmp].iroot
        THEN [w |-> Panic(W, "KKASSERT in hammer2_unmount"), error |-> "PANIC"]
        ELSE
        Only({IF VflushFailed(force, vflushErr)
              THEN [w |-> rw_exit_write(W1), error |-> "EBUSY"]
              ELSE Only({[w |-> rw_exit_write(W2), error |-> "OK"] :
                           W2 \in {hammer2_unmount_helper(W1, mp, pmp, 0)}}) :
                W1 \in {rw_enter_write(W)}})

(***************************************************************************)
(* hammer2_root                                                            *)
(***************************************************************************)
\* The value returned: EINVAL when the PFS of the mount has no root inode,
\* else what hammer2_igetv returns for the root inode.
hammer2_root(W, mp, igetv) ==
    IF ~W.pmps[W.mnts[mp].mnt_data].iroot THEN "EINVAL" ELSE igetv

(***************************************************************************)
(* hammer2_update_pmps                                                     *)
(***************************************************************************)
ForceLocal(W, hmp) == IF W.hmps[hmp].hflags_local THEN hmp ELSE 0

Ripdata(e) == [filename |-> e.filename, pfs_clid |-> e.pfs_clid, pfs_type |-> e.pfs_type]

RECURSIVE UpdatePmpsFrom(_, _, _, _)
\* The scan loop from entry k on; scanErr is the set of entries whose chain
\* comes back with chain->error set.
UpdatePmpsFrom(W, hmp, scanErr, k) ==
    LET ents == SuperRoot(W.hmps[hmp].devvp)
    IN  IF W.panic # "" \/ W.oom \/ k > Len(ents) THEN W
        ELSE IF k \in scanErr \/ ents[k].bref_type # "INODE"
        THEN UpdatePmpsFrom(W, hmp, scanErr, k + 1)
        ELSE Only({UpdatePmpsFrom(a.w, hmp, scanErr, k + 1) :
                     a \in {hammer2_pfsalloc(
                              W, [hmp |-> hmp, name |-> ents[k].filename],
                              Ripdata(ents[k]), ForceLocal(W, hmp))}})

hammer2_update_pmps(W, hmp, scanErr) == UpdatePmpsFrom(W, hmp, scanErr, 1)

(***************************************************************************)
(* hammer2_mount                                                           *)
(***************************************************************************)
\* What a call of hammer2_mount leaves: the state, the value returned, the
\* step reached, the device used, whether this call opened it, the pmp
\* resolved, and the entries still on the local list devvpl at return.
MountRes(w, error, step, hmp, newdev, pmp, tmp) ==
    [w |-> w, error |-> error, step |-> step, hmp |-> hmp, newdev |-> newdev,
     pmp |-> pmp, tmp |-> tmp]

\* A faulty match that compares vnode pointers only (rejected by C2).
DevvpMatch_PointerOnly(e_tmp, e) == e_tmp = e

\* One element of a device's devvp_list against one element of devvpl.
DevvpMatch(e_tmp, e) ==
    \/ e_tmp = e
    \/ v_rdev(e_tmp) # 0 /\ v_rdev(e_tmp) = v_rdev(e)

\* "Match the device": the first hmp of the list every vnode of which is
\* matched by some vnode of devvpl; 0 when there is none.
MatchDevice(W, devvpl) ==
    LET hit == {k \in 1..Len(W.hammer2_mntlist) :
                  \A e_tmp \in W.hmps[W.hammer2_mntlist[k]].devvp_list :
                     \E e \in devvpl : DevvpMatch(e_tmp, e)}
    IN  IF hit = {} THEN 0 ELSE W.hammer2_mntlist[Min(hit)]

\* A faulty match that takes the first pmp of the list whatever its names
\* (rejected by C15).
LabelDevice_AnyName(W, label) ==
    IF W.hammer2_pfslist = << >> THEN [hmp |-> 0, pmp |-> 0]
    ELSE [hmp |-> W.pmps[W.hammer2_pfslist[1]].pfs_hmps[0],
          pmp |-> W.hammer2_pfslist[1]]

\* "Match the label to a pmp already probed": the first pmp of the list
\* whose first slot named label has a device; hmp is that device.
LabelDevice(W, label) ==
    LET first(pm) == Min({i \in Slots : pm.pfs_names[i] # "" /\ pm.pfs_names[i] = label})
        named(pm) == \E i \in Slots : pm.pfs_names[i] # "" /\ pm.pfs_names[i] = label
        hit == {k \in 1..Len(W.hammer2_pfslist) :
                  LET pm == W.pmps[W.hammer2_pfslist[k]]
                  IN  named(pm) /\ pm.pfs_hmps[first(pm)] # 0}
    IN  IF hit = {} THEN [hmp |-> 0, pmp |-> 0]
        ELSE LET p == W.hammer2_pfslist[Min(hit)]
             IN  [hmp |-> W.pmps[p].pfs_hmps[first(W.pmps[p])], pmp |-> p]

\* A faulty failure exit that takes the failed mount off the mount_count of
\* the device (rejected by C18).
MountFail_Uncount(W, mp, hmp, error, step, newdev, pmp, tmp) ==
    MountRes([rw_exit_write(W) EXCEPT
                !.hmps[hmp].mount_count = IF @ > 0 THEN @ - 1 ELSE 0],
             error, step, hmp, newdev, pmp, tmp)

\* The common failure exit after the device is known:
\* hammer2_unmount_helper(mp, NULL, hmp); rw_exit_write; hammer2_unmount.
\* The call returns error unless the kernel halted on the way.
\* The call of hammer2_unmount is recorded with the value it returned and
\* whether it left the state as it found it.
MountFail(W, mp, hmp, error, step, newdev, pmp, tmp) ==
    Only({MountRes(r.w, IF r.w.panic # "" THEN "PANIC" ELSE error,
                   step, hmp, newdev, pmp, tmp) :
            r \in {Only({IF W2.panic # "" THEN u
                         ELSE [u EXCEPT !.w = LogCall(u.w, "unmount", mp,
                                                      W2.mnts[mp].mnt_data,
                                                      u.error, u.w = W2)] :
                           u \in {hammer2_unmount(W2, mp, TRUE, FALSE)}}) :
                     W2 \in {rw_exit_write(W1) :
                               W1 \in {hammer2_unmount_helper(W, mp, 0, hmp)}}}})

\* From "Lookup the mount point under the media-localized super-root" to
\* the end.  pmp0 is the value the variable pmp holds on entry.
MountResolve(W, mp, hmp, pmp0, label, lk, newdev, tmp) ==
    LET ents == SuperRoot(W.hmps[hmp].devvp)
        hit == {k \in 1..Len(ents) :
                  ents[k].bref_type = "INODE" /\ ents[k].filename = label}
    IN  IF W.panic # "" \/ W.oom
        THEN MountRes(W, "PANIC", "panic", hmp, newdev, 0, tmp)
        ELSE IF hit = {} \/ lk = "io_error"
        THEN MountFail(W, mp, hmp, IF lk = "io_error" THEN "EINVAL" ELSE "ENOENT",
                       "label_notfound", newdev, 0, tmp)
        ELSE
        \* a: the state and the pmp after "Acquire the pmp structure"
        Only({IF a.w.panic # "" \/ a.w.oom
              THEN MountRes(a.w, "PANIC", "panic", hmp, newdev, 0, tmp)
              ELSE IF a.pmp = 0 \/ a.w.pmps[a.pmp].mp # 0
              THEN MountFail(a.w, mp, hmp,
                             IF a.pmp = 0 THEN "EINVAL" ELSE "EBUSY",
                             IF a.pmp = 0 THEN "no_pmp" ELSE "already",
                             newdev, a.pmp, tmp)
              ELSE Only({MountRes(rw_exit_write(W1), "OK", "bound", hmp, newdev,
                                  a.pmp, tmp) :
                           W1 \in {hammer2_mount_helper(a.w, mp, a.pmp)}}) :
                a \in {IF lk = "chain_error" THEN [w |-> W, pmp |-> pmp0]
                       ELSE hammer2_pfsalloc(W, NoChain, Ripdata(ents[Min(hit)]),
                                             ForceLocal(W, hmp))}})

\* The arguments of a mount request and the environment's choices for it.
MountReq(mp, devvpl, label, local, fail, scanErr, lk) ==
    [mp |-> mp, devvpl |-> devvpl, label |-> label, local |-> local,
     fail |-> fail, scanErr |-> scanErr, lk |-> lk]

\* hammer2_update_pmps(hmp), then the label lookup.
MountScan(W6, hmp, q) ==
    Only({MountResolve(W7, q.mp, hmp, 0, q.label, q.lk, TRUE, {}) :
            W7 \in {hammer2_update_pmps(W6, hmp, q.scanErr)}})

\* The super-root lookup and its two failure exits; on success "Replace
\* the dummy spmp->iroot with a real one", made from the super-root chain.
MountSuperRoot(W5, hmp, spmp, q) ==
    IF q.fail \in {"sroot_null", "sroot_error"}
    THEN MountFail(W5, q.mp, hmp, "EINVAL", q.fail, TRUE, 0, {})
    ELSE Only({MountScan(W6, hmp, q) :
                 W6 \in {[W5 EXCEPT
                            !.pmps[spmp].pfs_clid = SuperRootClid(W5.hmps[hmp].devvp),
                            !.pmps[spmp].nchains = 1,
                            !.pmps[spmp].chain[0] = [hmp |-> hmp, name |-> "SUPROOT"],
                            !.pmps[spmp].spmp_hmp = hmp,
                            !.pmps[spmp].pfs_types[0] = "SUPROOT",
                            !.pmps[spmp].pfs_hmps[0] = hmp]}})

\* TAILQ_INSERT_TAIL(&hammer2_mntlist, hmp, mntentry), "Move devvpl entries
\* to hmp", hmp->spmp = hammer2_pfsalloc(NULL, NULL, hmp).
MountInsert(W3, hmp, q) ==
    Only({IF a.pmp = 0 THEN MountRes(a.w, "PANIC", "panic", hmp, TRUE, 0, {})
          ELSE Only({MountSuperRoot(W5, hmp, a.pmp, q) :
                       W5 \in {[a.w EXCEPT !.hmps[hmp].spmp = a.pmp,
                                           !.pmps[a.pmp].pfs_hmps[0] = hmp]}}) :
            a \in {hammer2_pfsalloc(W4, NoChain, NoRip, hmp) :
                     W4 \in {[W3 EXCEPT !.hammer2_mntlist = Append(@, hmp),
                                        !.hmps[hmp].devvp_list = q.devvpl]}}})

\* hammer2_init_volumes and its two failure exits, then the device flags.
\* W2: the devices are open and hmp is allocated, zero-filled.
MountVolumes(W2, hmp, q) ==
    IF q.fail = "volumes"
    THEN Only({MountRes([rw_exit_write(Wc) EXCEPT !.hmps[hmp] = FreeHmp],
                        "EIO", "volumes", hmp, TRUE, 0, {}) :
                 Wc \in {hammer2_close_devvp(W2, q.devvpl)}})
    ELSE IF q.fail = "norootvol"
    THEN MountFail(W2, q.mp, hmp, "EINVAL", "norootvol", TRUE, 0, q.devvpl)
    ELSE IF ~q.local
    THEN MountRes(Panic([W2 EXCEPT !.hmps[hmp].devvp = Min(q.devvpl)],
                        "KKASSERT(hmp->hflags & HMNT2_LOCAL)"),
                  "PANIC", "panic", hmp, TRUE, 0, q.devvpl)
    ELSE Only({MountInsert(W3, hmp, q) :
                 W3 \in {[W2 EXCEPT !.hmps[hmp].devvp = Min(q.devvpl),
                                    !.hmps[hmp].hflags_local = q.local]}})

\* "Open the device if this isn't a secondary mount and construct the
\* HAMMER2 device mount (hmp)": the branch hmp == NULL.
MountNewDevice(W, q) ==
    IF q.fail = "open"
    \* the open fails on the first vnode: close_devvp finds none to close
    THEN Only({MountRes(rw_exit_write(Wc), "EIO", "open", 0, TRUE, 0, {}) :
                 Wc \in {hammer2_close_devvp(W, {})}})
    ELSE Only({IF free = {}
               THEN MountRes([W1 EXCEPT !.oom = TRUE], "PANIC", "panic", 0, TRUE, 0, {})
               ELSE Only({MountVolumes(W2, Min(free), q) :
                            W2 \in {[W1 EXCEPT !.hmps[Min(free)] =
                                                 [FreeHmp EXCEPT !.alloc = TRUE]]}}) :
                 W1 \in {hammer2_open_devvp(W, q.devvpl)},
                 free \in {{d \in DevIds : ~W.hmps[d].alloc}}})

\* A faulty version that returns ENOENT for an unknown label without
\* releasing the lock (rejected by C24).
MountMatch_KeepLock(W0, sel, q) ==
    IF W0.panic # "" THEN MountRes(W0, "PANIC", "panic", 0, FALSE, 0, q.devvpl)
    ELSE IF q.devvpl # {} /\ sel.hmp = 0
            /\ (q.fail = "mountedon" \/ \E e \in q.devvpl : vfs_mountedon(W0, e))
    THEN MountRes(rw_exit_write(W0), "EBUSY", "mountedon", 0, FALSE, 0, {})
    ELSE IF q.devvpl = {} /\ sel.hmp = 0
    THEN MountRes(W0, "ENOENT", "label_enoent", 0, FALSE, 0, {})
    ELSE IF sel.hmp = 0
    THEN MountNewDevice(W0, q)
    ELSE MountResolve(W0, q.mp, sel.hmp, sel.pmp, q.label, q.lk, FALSE, q.devvpl)

\* After the match: W0 is the state with the lock held, sel the device (and
\* pmp, for a label-only request) the match found.
MountMatch(W0, sel, q) ==
    IF W0.panic # "" THEN MountRes(W0, "PANIC", "panic", 0, FALSE, 0, q.devvpl)
    ELSE IF q.devvpl # {} /\ sel.hmp = 0
            /\ (q.fail = "mountedon" \/ \E e \in q.devvpl : vfs_mountedon(W0, e))
    THEN MountRes(rw_exit_write(W0), "EBUSY", "mountedon", 0, FALSE, 0, {})
    ELSE IF q.devvpl = {} /\ sel.hmp = 0
    THEN MountRes(rw_exit_write(W0), "ENOENT", "label_enoent", 0, FALSE, 0, {})
    ELSE IF sel.hmp = 0
    THEN MountNewDevice(W0, q)
    ELSE MountResolve(W0, q.mp, sel.hmp, sel.pmp, q.label, q.lk, FALSE, q.devvpl)

hammer2_mount(W, mp, devvpl, label, local, fail, scanErr, lk) ==
    IF fail = "init_devvp"
    THEN MountRes(W, "EIO", "init_devvp", 0, FALSE, 0, {})
    ELSE Only({MountMatch(W0, IF devvpl # {}
                              THEN [hmp |-> MatchDevice(W0, devvpl), pmp |-> 0]
                              ELSE LabelDevice(W0, label), q) :
                 W0 \in {rw_enter_write(W)},
                 q \in {MountReq(mp, devvpl, label, local, fail, scanErr, lk)}})

(***************************************************************************)
(* File handles: hammer2_vptofh, hammer2_fhtovp                            *)
(***************************************************************************)
\* Inode numbers (hammer2_tid_t) are TidBits wide.
Tids == 0..(2^TidBits - 1)

\* Every bit of an inode number but the reserved highest one.
HAMMER2_DIRHASH_USERMSK == 2^(TidBits - 1) - 1

RECURSIVE BitAnd(_, _)
\* x & y
BitAnd(x, y) ==
    IF x = 0 \/ y = 0 THEN 0
    ELSE (x % 2) * (y % 2) + 2 * BitAnd(x \div 2, y \div 2)

\* struct hfid
NoFh == [hfid_len |-> 0, hfid_pad |-> 0, hfid_data |-> [i \in {0, 1} |-> 0]]

\* The handle hammer2_vptofh writes for the inode numbered inum.
hammer2_vptofh(inum) ==
    [hfid_len |-> SizeofHfid, hfid_pad |-> 0,
     hfid_data |-> [i \in {0, 1} |-> IF i = 0 THEN inum ELSE 0]]

\* A faulty decoding that keeps the reserved bit (rejected by C23).
FhInum_NoMask(fh) == fh.hfid_data[0]

\* inum = hfhp->hfid_data[0] & HAMMER2_DIRHASH_USERMSK
FhInum(fh) == BitAnd(fh.hfid_data[0], HAMMER2_DIRHASH_USERMSK)

\* Result: the value returned, the lookup called and the inode number
\* decoded.  vpp: the caller wants the vnode; rootErr, vgetErr: what
\* hammer2_root and hammer2_vget return.
hammer2_fhtovp(fh, vpp, rootErr, vgetErr) ==
    IF fh.hfid_len # SizeofHfid
    THEN [error |-> "EINVAL", lookup |-> "none", inum |-> 0]
    ELSE IF ~vpp
    THEN [error |-> "OK", lookup |-> "none", inum |-> FhInum(fh)]
    ELSE IF FhInum(fh) = 1
    THEN [error |-> rootErr, lookup |-> "root", inum |-> FhInum(fh)]
    ELSE [error |-> vgetErr, lookup |-> "vget", inum |-> FhInum(fh)]

(***************************************************************************)
(* The state machine                                                       *)
(***************************************************************************)
VARIABLES
    hammer2_mntlist,    \* the device registry: sequence of hmp
    hammer2_pfslist,    \* the PFS list: sequence of pmp
    hammer2_spmplist,   \* the Super-PFS list: sequence of pmp
    hmps,               \* the hammer2_dev_t objects
    pmps,               \* the hammer2_pfs_t objects
    mnts,               \* the struct mount handles
    vopen,              \* per device vnode, its opens for a HAMMER2 mount
    mntlk,              \* hammer2_mntlk: 1 when write-held
    panic,              \* "" or the assertion that halted the kernel
    ncalls,             \* number of calls made so far
    last                \* the last call: its arguments and what it returned

vars == <<hammer2_mntlist, hammer2_pfslist, hammer2_spmplist, hmps, pmps, mnts,
          vopen, mntlk, panic, ncalls, last>>

World ==
    [hammer2_mntlist |-> hammer2_mntlist, hammer2_pfslist |-> hammer2_pfslist,
     hammer2_spmplist |-> hammer2_spmplist, hmps |-> hmps, pmps |-> pmps,
     mnts |-> mnts, vopen |-> vopen, mntlk |-> mntlk, panic |-> panic, oom |-> FALSE,
     log |-> << >>,
     base |-> [mntlist |-> hammer2_mntlist, pfslist |-> hammer2_pfslist,
               spmplist |-> hammer2_spmplist,
               mount_count |-> [d \in DevIds |-> hmps[d].mount_count],
               members |-> [p \in PfsIds |-> [nchains |-> pmps[p].nchains,
                                               chain |-> pmps[p].chain,
                                               pfs_names |-> pmps[p].pfs_names,
                                               pfs_hmps |-> pmps[p].pfs_hmps]],
               mp |-> [p \in PfsIds |-> pmps[p].mp],
               mnt_data |-> [m \in MntIds |-> mnts[m].mnt_data]]]

NoLast ==
    [op |-> "none", devvpl |-> {}, label |-> "", local |-> TRUE,
     clean |-> FALSE, error |-> "",
     step |-> "", hmp |-> 0, newdev |-> FALSE, pmp |-> 0, tmp |-> {},
     affected |-> {}, scanErr |-> {}, log |-> << >>, changed |-> FALSE,
     inum |-> 0, fh |-> NoFh, vpp |-> FALSE, lookup |-> "", decoded |-> 0]

\* After hammer2_init (TAILQ_INIT of the three lists, rw_init of the lock).
Init ==
    /\ hammer2_mntlist = << >>
    /\ hammer2_pfslist = << >>
    /\ hammer2_spmplist = << >>
    /\ hmps = [d \in DevIds |-> FreeHmp]
    /\ pmps = [p \in PfsIds |-> FreePmp]
    /\ mnts = [m \in MntIds |-> FreeMnt]
    /\ vopen = [vp \in Vnodes |-> 0]
    /\ mntlk = 0
    /\ panic = ""
    /\ ncalls = 0
    /\ last = NoLast

\* The value of a pointer to a struct mount the VFS layer has freed.
Dangling == MaxMounts + 1

\* The VFS layer frees struct mount mp: every pmp->mp that still points to
\* it dangles.
VfsFree(W, mp) ==
    [W EXCEPT !.mnts[mp] = FreeMnt,
              !.pmps = [p \in PfsIds |->
                          IF W.pmps[p].mp = mp THEN [W.pmps[p] EXCEPT !.mp = Dangling]
                          ELSE W.pmps[p]]]

Install(W) ==
    /\ hammer2_mntlist' = W.hammer2_mntlist
    /\ hammer2_pfslist' = W.hammer2_pfslist
    /\ hammer2_spmplist' = W.hammer2_spmplist
    /\ hmps' = W.hmps
    /\ pmps' = W.pmps
    /\ mnts' = W.mnts
    /\ vopen' = W.vopen
    /\ mntlk' = W.mntlk
    /\ panic' = W.panic
    /\ ncalls' = ncalls + 1

\* A call can be made: the kernel runs and the budget of calls is not used
\* up.  A call that changed nothing is not followed by further calls:
\* whatever can follow it can follow the state it was made in.
CanCall ==
    /\ panic = ""
    /\ ncalls < MaxCalls
    /\ last.op = "none" \/ last.changed

\* mount(2): the VFS layer hands a new struct mount to hammer2_mount and
\* keeps it only when the call returns 0.
MountCall(mp, devvpl, label, local, fail, scanErr, lk) ==
    \E W \in {World} :
    \E r0 \in {hammer2_mount(W, mp, devvpl, label, local, fail, scanErr, lk)} :
    \E r \in {[r0 EXCEPT !.w = Returned(r0.w)]} :
    \E W1 \in {IF r.error = "OK" THEN [r.w EXCEPT !.mnts[mp].active = TRUE]
                ELSE VfsFree(r.w, mp)} :
        /\ ~r.w.oom
        /\ Install(W1)
        /\ last' = [op |-> "mount", devvpl |-> devvpl, label |-> label,
                    local |-> local,
                    clean |-> (fail = "none" /\ scanErr = {} /\ lk = "ok"),
                    error |-> r.error, step |-> r.step, hmp |-> r.hmp,
                    newdev |-> r.newdev, pmp |-> r.pmp, tmp |-> r.tmp,
                    affected |-> {}, scanErr |-> scanErr, log |-> W1.log,
                    inum |-> 0, fh |-> NoFh, vpp |-> FALSE, lookup |-> "",
                    decoded |-> 0,
                    changed |-> ([W1 EXCEPT !.log = << >>, !.base = W.base] # W)]

\* The sets of entries whose chain comes back with an error during the scan
\* of the media behind a device list.
ScanChoices(devvpl) == SUBSET Flaky(Min(devvpl))

\* The environment's choices are enumerated where hammer2_mount reads them:
\* the faults of opening a device and the scan only when the request opens
\* a device, the device flags only on that first mount, the label only
\* when the label lookup is reached.
MountOp ==
    /\ CanCall
    /\ \E mp \in MntIds :
        /\ ~mnts[mp].active
        /\ \A m \in MntIds : ~mnts[m].active => mp <= m
        /\ \E devvpl \in DevvplInputs :
             \/ MountCall(mp, devvpl, "DATA", TRUE, "init_devvp", {}, "ok")
             \/ /\ devvpl = {} \/ MatchDevice(World, devvpl) # 0
                /\ \E label \in Labels, lk \in Lookups :
                      MountCall(mp, devvpl, label, TRUE, "none", {}, lk)
             \/ /\ devvpl # {}
                /\ MatchDevice(World, devvpl) = 0
                /\ \/ \E fail \in Faults \ {"none", "init_devvp"} :
                         MountCall(mp, devvpl, "DATA", TRUE, fail, {}, "ok")
                   \/ MountCall(mp, devvpl, "DATA", FALSE, "none", {}, "ok")
                   \/ \E label \in Labels, scanErr \in ScanChoices(devvpl), lk \in Lookups :
                         MountCall(mp, devvpl, label, TRUE, "none", scanErr, lk)

\* unmount(2) of a mounted file system: the VFS layer frees the struct mount
\* when hammer2_unmount returns 0.
UnmountOp ==
    /\ CanCall
    /\ \E mp \in MntIds, force \in BOOLEAN, vflushErr \in BOOLEAN :
        /\ mnts[mp].active
        /\ force => ~vflushErr
        /\ \E W \in {World} :
           \E r0 \in {hammer2_unmount(W, mp, force, vflushErr)} :
           \E r \in {[r0 EXCEPT !.w = Returned(r0.w)]} :
           \E W1 \in {IF r.error = "OK" THEN VfsFree(r.w, mp) ELSE r.w} :
               /\ Install(W1)
               /\ last' = [NoLast EXCEPT !.op = "unmount", !.error = r.error,
                             !.pmp = mnts[mp].mnt_data,
                             !.step = IF r.error = "PANIC" THEN "panic"
                                      ELSE IF vflushErr THEN "vflush"
                                      ELSE "unbound",
                             !.log = W1.log,
                             !.changed = ([W1 EXCEPT !.log = << >>, !.base = W.base] # W)]

\* VFS_ROOT of a mounted file system; hammer2_igetv gives the vnode or
\* fails.
RootOp ==
    /\ CanCall
    /\ \E mp \in MntIds, igetv \in {"OK", "ENOMEM"} :
        /\ mnts[mp].active
        /\ \E W \in {World} :
              /\ Install(W)
              /\ last' = [NoLast EXCEPT !.op = "root",
                                        !.error = hammer2_root(W, mp, igetv),
                                        !.pmp = mnts[mp].mnt_data]

Next == MountOp \/ UnmountOp \/ RootOp

Spec == Init /\ [][Next]_vars

(***************************************************************************)
(* hammer2_pfsfree_scan over every member array                            *)
(***************************************************************************)
\* hammer2_pfsfree_scan takes any PFS of the lists as it finds it.  This
\* specification starts it on two devices and two PFS whose member arrays
\* range over everything the arrays can hold (members on either device,
\* in any slot, with gaps), the lock being held as in its callers.
ScanDevs == {1, 2}

\* A PFS whose slot i holds a member on device a[i] (0: empty slot).
ScanPfs(a) ==
    [FreePmp EXCEPT
       !.alloc = TRUE, !.iroot = TRUE, !.pfs_clid = 1,
       !.nchains = IF \A i \in Slots : a[i] = 0 THEN 0
                   ELSE Max({i \in Slots : a[i] # 0}) + 1,
       !.chain = [i \in Slots |->
                    IF a[i] = 0 THEN NoChain ELSE [hmp |-> a[i], name |-> "DATA"]],
       !.pfs_types = [i \in Slots |-> IF a[i] = 0 THEN "NONE" ELSE "MASTER"],
       !.pfs_names = [i \in Slots |-> IF a[i] = 0 THEN "" ELSE "DATA"],
       !.pfs_hmps = a]

\* The Super-PFS of device d, as hammer2_mount sets it up.
ScanSpmp(d) ==
    [FreePmp EXCEPT
       !.alloc = TRUE, !.flags_spmp = TRUE, !.force_local = d, !.iroot = TRUE,
       !.nchains = 1, !.chain[0] = [hmp |-> d, name |-> "SUPROOT"],
       !.pfs_hmps[0] = d, !.spmp_hmp = d]

InitScan ==
    /\ hammer2_mntlist = <<1, 2>>
    /\ hammer2_spmplist = <<1, 2>>
    /\ hammer2_pfslist = <<3, 4>>
    /\ hmps = [d \in DevIds |->
                 IF d \in ScanDevs
                 THEN [alloc |-> TRUE, devvp_list |-> {2 * d - 1}, devvp |-> 2 * d - 1,
                       hflags_local |-> TRUE, spmp |-> d, mount_count |-> 0]
                 ELSE FreeHmp]
    /\ \E a \in [Slots -> {0} \cup ScanDevs], b \in [Slots -> {0} \cup ScanDevs] :
          pmps = [p \in PfsIds |->
                    IF p \in ScanDevs THEN ScanSpmp(p)
                    ELSE IF p = 3 THEN ScanPfs(a)
                    ELSE IF p = 4 THEN ScanPfs(b)
                    ELSE FreePmp]
    /\ mnts = [m \in MntIds |-> FreeMnt]
    /\ vopen = [vp \in Vnodes |-> IF vp \in {1, 3} THEN 1 ELSE 0]
    /\ mntlk = 1
    /\ panic = ""
    /\ ncalls = 0
    /\ last = NoLast

\* One call of hammer2_pfsfree_scan(hmp, which).
PfsfreeScanOp ==
    /\ panic = ""
    /\ ncalls < MaxCalls
    /\ \E hmp \in ScanDevs, which \in {0, 1} :
          \E W \in {World} :
          \E W1 \in {hammer2_pfsfree_scan(W, hmp, which)} :
          LET wlist == IF which = 0 THEN hammer2_pfslist ELSE hammer2_spmplist
          IN  /\ Install(W1)
              /\ last' = [NoLast EXCEPT
                            !.op = "scan", !.hmp = hmp,
                            !.step = IF which = 0 THEN "pfslist" ELSE "spmplist",
                            !.affected = {p \in SeqSet(wlist) :
                                            \E i \in Slots : pmps[p].pfs_hmps[i] = hmp},
                            !.log = W1.log,
                            !.changed = ([W1 EXCEPT !.log = << >>, !.base = W.base] # W)]

SpecScan == InitScan /\ [][PfsfreeScanOp]_vars

\* ------------------------------------------------------------------------
\* Vocabulary of the properties.

\* The devices, PFS and Super-PFS on the three lists.
(***************************************************************************)
(* File handles of every inode number and of every length                  *)
(***************************************************************************)
\* The lengths a handle given to hammer2_fhtovp can claim.
FhLens == {0, SizeofHfid - 8, SizeofHfid, SizeofHfid + 8}

\* hammer2_vptofh for the vnode of the inode numbered inum.
VptofhOp ==
    /\ last.op = "none"
    /\ \E inum \in Tids :
          last' = [NoLast EXCEPT !.op = "vptofh", !.error = "OK",
                                 !.inum = inum, !.fh = hammer2_vptofh(inum)]
    /\ UNCHANGED <<hammer2_mntlist, hammer2_pfslist, hammer2_spmplist, hmps,
                    pmps, mnts, vopen, mntlk, panic, ncalls>>

\* hammer2_fhtovp for the handle hammer2_vptofh has just written, or for a
\* handle a client made up.
FhtovpOp ==
    /\ last.op \in {"none", "vptofh"}
    /\ \E fh \in IF last.op = "vptofh" THEN {last.fh}
                  ELSE {[NoFh EXCEPT !.hfid_len = l, !.hfid_data[0] = d] :
                          l \in FhLens, d \in Tids},
          vpp \in BOOLEAN, rootErr \in {"OK", "ENOMEM"},
          vgetErr \in {"OK", "ENOENT"} :
          \E r \in {hammer2_fhtovp(fh, vpp, rootErr, vgetErr)} :
             last' = [NoLast EXCEPT
                        !.op = "fhtovp", !.error = r.error,
                        !.step = IF last.op = "vptofh" THEN "roundtrip"
                                 ELSE "forged",
                        !.inum = last.inum, !.fh = fh, !.vpp = vpp,
                        !.lookup = r.lookup, !.decoded = r.inum]
    /\ UNCHANGED <<hammer2_mntlist, hammer2_pfslist, hammer2_spmplist, hmps,
                    pmps, mnts, vopen, mntlk, panic, ncalls>>

SpecFh == Init /\ [][VptofhOp \/ FhtovpOp]_vars

Devices == {hammer2_mntlist[i] : i \in 1..Len(hammer2_mntlist)}
Pfs == {hammer2_pfslist[i] : i \in 1..Len(hammer2_pfslist)}
Spmps == {hammer2_spmplist[i] : i \in 1..Len(hammer2_spmplist)}

\* PFS p has a member on device d.
MemberOn(p, d) == \E i \in Slots : pmps[p].pfs_hmps[i] = d

\* The bound mounts whose PFS has a member on device d.
BoundOn(d) ==
    {m \in MntIds : mnts[m].mnt_data # 0 /\ MemberOn(mnts[m].mnt_data, d)}

\* Device d holds the storage behind every vnode of devvpl's match: each
\* vnode of the device names the storage of some vnode of devvpl.
SameStorage(d, devvpl) ==
    \A t \in hmps[d].devvp_list : \E e \in devvpl : StorageOf(t) = StorageOf(e)

\* The PFS of device d whose first member is named n.
PfsNamed(d, n) ==
    {p \in Pfs : pmps[p].pfs_hmps[0] = d /\ pmps[p].pfs_names[0] = n}

\* Label n of device d is bound to a mount.
Mounted(d, n) == \E m \in MntIds : mnts[m].mnt_data \in PfsNamed(d, n)

\* ------------------------------------------------------------------------
\* C1: in every state, the mount_count of every registered device is the
\* number of bound mounts whose PFS has a member on that device.
C1_MountCount ==
    \A d \in Devices : hmps[d].mount_count = Cardinality(BoundOn(d))

\* C1 witness: an unmount has brought a device that carried two mounts back
\* to one; the device stays registered with mount_count 1.
C1_Witness ==
    /\ last.op = "unmount"
    /\ last.error = "OK"
    /\ \E d \in Devices :
          /\ hmps[d].mount_count = 1
          /\ Cardinality(BoundOn(d)) = 1
          /\ \E p \in Pfs : MemberOn(p, d) /\ pmps[p].mp = Dangling

\* ------------------------------------------------------------------------
\* C2: no two registered devices hold the same underlying storage, and a
\* mount request that names the storage of a registered device resolves to
\* that device: no device object is created, no device joins the list and
\* no vnode is opened.
C2_OneDevicePerStorage ==
    [][/\ \A d1 \in Devices', d2 \in Devices' :
             d1 # d2 =>
               \A t1 \in hmps'[d1].devvp_list, t2 \in hmps'[d2].devvp_list :
                  StorageOf(t1) # StorageOf(t2)
       /\ \A d \in Devices :
             (/\ last'.op = "mount"
              /\ last'.step # "init_devvp"
              /\ last'.devvpl # {}
              /\ SameStorage(d, last'.devvpl))
             => /\ last'.hmp = d
                /\ ~last'.newdev
                /\ Devices' \subseteq Devices
                /\ \A vp \in Vnodes : vopen'[vp] <= vopen[vp]]_vars

\* C2 witness: a second mount named the other vnode of the block device of
\* a registered device and was bound on that device, which is the only one.
C2_Witness ==
    /\ last.op = "mount"
    /\ last.step = "bound"
    /\ ~last.newdev
    /\ Len(hammer2_mntlist) = 1
    /\ last.devvpl # {}
    /\ last.devvpl \cap hmps[last.hmp].devvp_list = {}
    /\ hmps[last.hmp].mount_count = 2
    /\ \A vp \in last.devvpl : vopen[vp] = 0

\* ------------------------------------------------------------------------
\* The stages of the scenario of C3 on the block device behind vnodes 1 and
\* 2, whose super-root holds exactly DATA and ROOT, with distinct cluster
\* ids.
\* The first call after initialisation was a successful mount of DATA on
\* the block device.
C3_DataFirst ==
    /\ ncalls = 1
    /\ last.op = "mount" /\ last.error = "OK"
    /\ last.label = "DATA" /\ last.devvpl \in {{1}, {2}}

\* d is the only device, it holds the block device, and exactly the PFS
\* DATA and ROOT are registered, both on d.
C3_Registered(d) ==
    /\ hammer2_mntlist = <<d>>
    /\ v_rdev(hmps[d].devvp) = 7
    /\ Cardinality(Pfs) = 2
    /\ PfsNamed(d, "DATA") # {}
    /\ PfsNamed(d, "ROOT") # {}

C3_BothMounted(d) ==
    C3_Registered(d) /\ hmps[d].mount_count = 2 /\ Mounted(d, "DATA") /\ Mounted(d, "ROOT")

C3_RootMounted(d) ==
    C3_Registered(d) /\ hmps[d].mount_count = 1 /\ ~Mounted(d, "DATA") /\ Mounted(d, "ROOT")

\* C3: after a successful mount of DATA on the block device as the first
\* call, a successful mount of ROOT gives one registered device, two
\* registered PFS and mount_count 2; a successful unmount of DATA then
\* gives mount_count 1 with the device still registered; a successful
\* unmount of ROOT then frees the device, whose count is 0, and empties the
\* device list.
C3_Scenario ==
    [][/\ (/\ C3_DataFirst
           /\ last'.op = "mount" /\ last'.error = "OK"
           /\ last'.label = "ROOT" /\ last'.devvpl \in {{}, {1}, {2}})
          => \E d \in DevIds : C3_BothMounted(d)'
       /\ \A d \in DevIds :
            /\ (/\ C3_BothMounted(d)
                /\ last'.op = "unmount" /\ last'.error = "OK"
                /\ last'.pmp \in PfsNamed(d, "DATA"))
               => C3_RootMounted(d)'
            /\ (/\ C3_RootMounted(d)
                /\ last'.op = "unmount" /\ last'.error = "OK"
                /\ last'.pmp \in PfsNamed(d, "ROOT"))
               => /\ hammer2_mntlist' = << >>
                  /\ hmps'[d] = FreeHmp]_vars

\* ------------------------------------------------------------------------
\* PFS p has members and all of them are on device d.
OnlyOn(p, d) ==
    /\ MemberOn(p, d)
    /\ \A i \in Slots : pmps[p].pfs_hmps[i] \in {0, d}

\* C4: when a successful unmount removes the last bound mount that depends
\* on device d, then on return d is not on the device list, its Super-PFS
\* is not on the Super-PFS list and no PFS whose members were all on d is
\* on the PFS list; if d was the only device, the three lists are empty.
C4_LastUnmount ==
    [][\A d \in Devices :
          (/\ last'.op = "unmount"
           /\ last'.error = "OK"
           /\ hmps[d].mount_count = 1
           /\ MemberOn(last'.pmp, d))
          => /\ d \notin Devices'
             /\ hmps[d].spmp \notin Spmps'
             /\ \A p \in Pfs : OnlyOn(p, d) => p \notin Pfs'
             /\ hammer2_mntlist = <<d>>
                  => /\ hammer2_mntlist' = << >>
                     /\ hammer2_spmplist' = << >>
                     /\ hammer2_pfslist' = << >>]_vars

\* ------------------------------------------------------------------------
\* C5: a mount whose label resolves to a PFS that a mount is bound to
\* returns EBUSY, and the three lists, every device (its mount_count
\* included), every PFS (its member arrays included), every binding and
\* every open count are as they were before the call.
C5_AlreadyMounted ==
    [][(/\ last'.op = "mount"
        /\ last'.pmp # 0
        /\ \E m \in MntIds : mnts[m].mnt_data = last'.pmp)
       => /\ last'.error = "EBUSY"
          /\ hammer2_mntlist' = hammer2_mntlist
          /\ hammer2_pfslist' = hammer2_pfslist
          /\ hammer2_spmplist' = hammer2_spmplist
          /\ hmps' = hmps
          /\ pmps' = pmps
          /\ mnts' = mnts
          /\ vopen' = vopen]_vars

\* C5 witness: a mount has returned EBUSY at the "already mounted" test for
\* a PFS that is bound to an earlier mount.
C5_Witness ==
    /\ last.op = "mount"
    /\ last.step = "already"
    /\ last.error = "EBUSY"
    /\ \E m \in MntIds : mnts[m].mnt_data = last.pmp /\ pmps[last.pmp].mp = m

\* ------------------------------------------------------------------------
\* The steps after the device was entered in the list at which a mount that
\* opened the device can fail: super-root not found, super-root chain
\* error, label not found, PFS structure not acquired.
C6_LateSteps == {"sroot_null", "sroot_error", "label_notfound", "no_pmp"}

\* C6: a mount that opened a device and failed at one of the late steps has
\* returned its error and left no residue: the device is not on the device
\* list and is freed, no Super-PFS of the Super-PFS list belongs to it and
\* no PFS of the PFS list has a member on it.
C6_NoResidue ==
    (/\ last.op = "mount"
     /\ last.newdev
     /\ last.step \in C6_LateSteps)
    => /\ panic = ""
       /\ last.error \in {"EINVAL", "ENOENT"}
       /\ last.hmp \notin Devices
       /\ hmps[last.hmp] = FreeHmp
       /\ \A p \in Spmps : pmps[p].spmp_hmp # last.hmp /\ ~MemberOn(p, last.hmp)
       /\ \A p \in Pfs : ~MemberOn(p, last.hmp)

\* C6 witness: while another device is registered, a mount opened the
\* device on vnode 3, scanned its super-root and failed to find its label.
C6_Witness ==
    /\ last.op = "mount"
    /\ last.newdev
    /\ last.step = "label_notfound"
    /\ last.devvpl = {3}
    /\ Len(hammer2_mntlist) = 1
    /\ Len(hammer2_pfslist) = 2

\* ------------------------------------------------------------------------
\* The failure steps after the volume handles were opened: volume
\* initialisation error, missing root volume, super-root lookup failure,
\* super-root chain error.
C7_UnwindSteps == {"volumes", "norootvol", "sroot_null", "sroot_error"}

\* C7: a mount that opened the volume handles and failed at one of these
\* steps has returned with every handle it opened closed and its list
\* entries released, the device object freed, and without having removed
\* from the device list a device that was never inserted in it.
C7_Unwind ==
    (/\ last.op = "mount"
     /\ last.newdev
     /\ last.step \in C7_UnwindSteps)
    => /\ panic = ""
       /\ last.error \in {"EIO", "EINVAL"}
       /\ \A vp \in last.devvpl : vopen[vp] = 0
       /\ last.tmp = {}
       /\ hmps[last.hmp] = FreeHmp
       /\ last.hmp \notin Devices

EntryNames(d) ==
    {SuperRoot(hmps[d].devvp)[k].filename : k \in
       {j \in 1..Len(SuperRoot(hmps[d].devvp)) :
          SuperRoot(hmps[d].devvp)[j].bref_type = "INODE"}}

\* C9: every PFS registered under a name has exactly one member, on the
\* device it is local to, and a device has one PFS per name whatever the
\* cluster ids; the first mount of a device whose scan read every entry
\* registers one PFS per named entry, also for entries of equal cluster
\* id; the PFS a label resolves to has exactly one member, is local to the
\* mount's device and has the label as its first-member name, whatever
\* other PFS shares its cluster id; and no two mounts are bound to the
\* same PFS.
C9_ForcedLocal ==
    /\ \A p \in Pfs :
          pmps[p].pfs_names[0] # ""
          => /\ pmps[p].nchains = 1
             /\ pmps[p].force_local = pmps[p].pfs_hmps[0]
             /\ pmps[p].force_local \in Devices
             /\ \A q \in Pfs \ {p} :
                   pmps[q].force_local = pmps[p].force_local
                   => pmps[q].pfs_names[0] # pmps[p].pfs_names[0]
    /\ (/\ last.op = "mount" /\ last.local /\ last.newdev /\ last.clean
        /\ last.label \in {"DATA", "ROOT"})
          => /\ last.error = "OK"
             /\ \A n \in EntryNames(last.hmp) :
                   Cardinality(PfsNamed(last.hmp, n)) = 1
             /\ Cardinality({p \in Pfs : MemberOn(p, last.hmp)})
                  = Cardinality(EntryNames(last.hmp))
    /\ (/\ last.op = "mount" /\ last.step \in {"bound", "already"}
        /\ pmps[last.pmp].alloc)
          => /\ pmps[last.pmp].nchains = 1
             /\ pmps[last.pmp].force_local = last.hmp
             /\ pmps[last.pmp].pfs_names[0] = last.label
    /\ \A m1 \in MntIds, m2 \in MntIds :
          (m1 # m2 /\ mnts[m1].mnt_data # 0)
          => mnts[m1].mnt_data # mnts[m2].mnt_data

\* ------------------------------------------------------------------------
\* The slots of PFS p that hold a member on a device other than d.
Remaining(p, d) == {i \in Slots : pmps[p].pfs_hmps[i] \notin {0, d}}

\* C10: after hammer2_pfsfree_scan(d, which), for every PFS of the scanned
\* list that had a member on d: every slot that was on d is cleared (chain,
\* role, name and device pointer); when members remain, their slots are
\* untouched, the PFS stays on its list and nchains is the highest
\* remaining slot index + 1; when none remains, nchains is 0 and the PFS is
\* off its list and freed.  A PFS without a member on d is left alone.
C10_Detach ==
    [][last'.op = "scan" =>
         \A p \in (IF last'.step = "pfslist" THEN Pfs ELSE Spmps) :
            IF MemberOn(p, last'.hmp)
            THEN /\ \A i \in Slots :
                       pmps[p].pfs_hmps[i] = last'.hmp
                       => /\ pmps'[p].chain[i] = NoChain
                          /\ pmps'[p].pfs_types[i] = "NONE"
                          /\ pmps'[p].pfs_names[i] = ""
                          /\ pmps'[p].pfs_hmps[i] = 0
                 /\ Remaining(p, last'.hmp) # {}
                       => /\ pmps'[p].nchains = Max(Remaining(p, last'.hmp)) + 1
                          /\ p \in (Pfs \cup Spmps)'
                          /\ \A i \in Remaining(p, last'.hmp) :
                                /\ pmps'[p].chain[i] = pmps[p].chain[i]
                                /\ pmps'[p].pfs_names[i] = pmps[p].pfs_names[i]
                                /\ pmps'[p].pfs_hmps[i] = pmps[p].pfs_hmps[i]
                 /\ Remaining(p, last'.hmp) = {}
                       => /\ pmps'[p].nchains = 0
                          /\ p \notin (Pfs \cup Spmps)'
                          /\ ~pmps'[p].alloc
            ELSE pmps'[p] = pmps[p] /\ p \in (Pfs \cup Spmps)']_vars

\* C10 witness: one scan of the PFS list for device 1 has detached it from
\* both PFS: PFS 3 keeps its member on device 2 in slot 1 behind the gap of
\* slot 0, with nchains 2, and PFS 4, left without a member, is off the
\* list and freed.
C10_Witness ==
    /\ last.op = "scan"
    /\ last.hmp = 1
    /\ last.affected = {3, 4}
    /\ hammer2_pfslist = <<3>>
    /\ pmps[3].pfs_hmps[0] = 0
    /\ pmps[3].pfs_hmps[1] = 2
    /\ pmps[3].nchains = 2
    /\ ~pmps[4].alloc

\* ------------------------------------------------------------------------
\* The events of one kind in the record of the last call.
Events(kind) == {k \in 1..Len(last.log) : last.log[k].ev = kind}

\* C11: in every call, the device part of hammer2_unmount_helper tears a
\* device down only when its mount_count is 0, and then (unless the call
\* faulted) the device is off the device list and freed; a device it is
\* called on with mount_count > 0 is skipped and the call leaves the device
\* record, the device list position and the Super-PFS of it as they were.
C11_TeardownOnlyUnreferenced ==
    [][\A k \in 1..Len(last'.log) :
          /\ last'.log[k].ev = "teardown"
                => /\ last'.log[k].count = 0
                   /\ panic' = ""
                         => /\ last'.log[k].id \notin Devices'
                            /\ hmps'[last'.log[k].id] = FreeHmp
          /\ last'.log[k].ev = "skip"
                => /\ last'.log[k].count > 0
                   /\ last'.log[k].id \in Devices
                   /\ hmps'[last'.log[k].id] = hmps[last'.log[k].id]
                   /\ hammer2_mntlist' = hammer2_mntlist
                   /\ hmps[last'.log[k].id].spmp \in Spmps']_vars

\* C11 witness: an unmount has torn down exactly one device, found with
\* mount_count 0, while another device with a bound mount stays registered.
C11_Witness ==
    /\ last.op = "unmount"
    /\ panic = ""
    /\ Cardinality(Events("teardown")) = 1
    /\ \A k \in Events("teardown") : last.log[k].count = 0
    /\ \E d \in Devices : hmps[d].mount_count > 0

\* ------------------------------------------------------------------------
\* C12: a successful unmount that leaves the PFS registered (its device
\* keeps another bound mount) leaves the PFS without a mount handle, and a
\* mount is rejected as already mounted only when a mount is bound to the
\* PFS its label resolves to.
C12_UnmountUnbinds ==
    [][/\ (/\ last'.op = "unmount" /\ last'.step = "unbound"
            /\ last'.pmp \in Pfs')
              => pmps'[last'.pmp].mp = 0
       /\ (last'.op = "mount" /\ last'.step = "already")
              => \E m \in MntIds : mnts[m].mnt_data = last'.pmp]_vars

\* ------------------------------------------------------------------------
\* The calls of hammer2_unmount for a mount handle without a PFS binding
\* in the record of the last call.
Unbound == {k \in Events("unmount") : last.log[k].count = 0}

\* C13 as stated: hammer2_unmount for a mount handle without a PFS binding
\* returns an error and changes nothing.
C13_Rejected ==
    \A k \in Unbound : last.log[k].ret # "OK" /\ last.log[k].same

\* C13, amended: hammer2_unmount for a mount handle without a PFS binding
\* returns 0 and leaves every list, every mount_count and every binding as
\* it found them.
C13_NoBindingNoEffect ==
    \A k \in Unbound : last.log[k].ret = "OK" /\ last.log[k].same

\* C13 witness: a mount that failed at the label lookup on a device that
\* keeps a bound mount has called hammer2_unmount for its own, still
\* unbound, mount handle.
C13_Witness ==
    /\ last.op = "mount"
    /\ last.step = "label_notfound"
    /\ Unbound # {}
    /\ \E d \in Devices : hmps[d].mount_count > 0

\* ------------------------------------------------------------------------
\* C14: an unmount whose vflush fails returns EBUSY and leaves every
\* binding, every mount_count, the three lists, every PFS and every open
\* device as they were; an unmount whose vflush succeeds returns 0, clears
\* the binding of the mount and takes one from the mount_count of every
\* device the PFS has a member on.
C14_VflushFailure ==
    [][/\ (last'.op = "unmount" /\ last'.step = "vflush")
            => /\ last'.error = "EBUSY"
               /\ UNCHANGED <<hammer2_mntlist, hammer2_pfslist,
                               hammer2_spmplist, hmps, pmps, mnts, vopen>>
       /\ (last'.op = "unmount" /\ last'.step = "unbound")
            => /\ last'.error = "OK"
               /\ \A m \in MntIds :
                     mnts[m].mnt_data = last'.pmp => mnts'[m].mnt_data = 0
               /\ \A d \in Devices :
                     MemberOn(last'.pmp, d)
                       => \/ hmps[d].mount_count = 1 /\ d \notin Devices'
                          \/ hmps'[d].mount_count = hmps[d].mount_count - 1]_vars

\* C14 witness: an unmount without force has failed in vflush and the
\* mount is still bound to its PFS, whose device still counts it.
C14_Witness ==
    /\ last.op = "unmount"
    /\ last.step = "vflush"
    /\ last.error = "EBUSY"
    /\ \E m \in MntIds : /\ mnts[m].mnt_data = last.pmp
                          /\ pmps[last.pmp].mp = m
                          /\ \E d \in Devices : /\ MemberOn(last.pmp, d)
                                                 /\ hmps[d].mount_count > 0

\* ------------------------------------------------------------------------
\* The devices of the registered PFS that have a member named n.
NamedOn(n) ==
    {d \in DevIds : \E p \in Pfs : \E i \in Slots :
                        pmps[p].pfs_names[i] = n /\ pmps[p].pfs_hmps[i] = d}

\* C15: a mount that names no device goes on with a device on which a
\* registered PFS has a member named as the label; when no registered PFS
\* has such a member it returns ENOENT and leaves the three lists, every
\* device, PFS and mount and every open of a device vnode as they were.
C15_LabelOnly ==
    [][(last'.op = "mount" /\ last'.devvpl = {} /\ last'.step # "init_devvp")
         => IF NamedOn(last'.label) # {}
            THEN /\ last'.step # "label_enoent"
                 /\ last'.hmp \in NamedOn(last'.label)
                 /\ last'.hmp \in Devices
            ELSE /\ last'.error = "ENOENT"
                 /\ last'.step = "label_enoent"
                 /\ UNCHANGED <<hammer2_mntlist, hammer2_pfslist,
                                 hammer2_spmplist, hmps, pmps, mnts, vopen>>]_vars

\* C15 witness: a mount of a label alone has returned ENOENT while a
\* device and its PFS under other names are registered.
C15_Witness ==
    /\ last.op = "mount"
    /\ last.devvpl = {}
    /\ last.error = "ENOENT"
    /\ last.step = "label_enoent"
    /\ NamedOn(last.label) = {}
    /\ \E p \in Pfs : \E i \in Slots : pmps[p].pfs_names[i] # ""

\* ------------------------------------------------------------------------
\* C16: in every unmount that returns 0 without a fault, each restart of
\* the device sweep has taken exactly one device off the device list and
\* each restart of a PFS scan exactly one PFS off its list; the restarts of
\* the sweep are as many as the devices the list has lost and no more than
\* the devices registered before, the restarts of the PFS scans no more
\* than the PFS registered before; every device torn down had mount_count
\* 0, and on return no registered device has mount_count 0.
C16_SweepFixpoint ==
    [][(last'.op = "unmount" /\ last'.step = "unbound" /\ panic' = "")
         => /\ \A k \in Events("again")' : last'.log[k].count = 1
            /\ \A k \in Events("pfsfree")' : last'.log[k].count = 1
            /\ \A k \in Events("teardown")' : last'.log[k].count = 0
            /\ Cardinality(Events("again")') = Cardinality(Events("teardown")')
            /\ Cardinality(Events("again")')
                 = Len(hammer2_mntlist) - Len(hammer2_mntlist')
            /\ Cardinality(Events("again")') <= Len(hammer2_mntlist)
            /\ Cardinality(Events("pfsfree")')
                 = Len(hammer2_pfslist) + Len(hammer2_spmplist)
                    - Len(hammer2_pfslist') - Len(hammer2_spmplist')
            /\ Cardinality(Events("pfsfree")')
                 <= Len(hammer2_pfslist) + Len(hammer2_spmplist)
            /\ \A d \in Devices' : hmps'[d].mount_count # 0]_vars

\* C16 witness: the sweep of one unmount has restarted twice, taking two
\* devices off the list, and the PFS scans have restarted at least three
\* times; no device is registered afterwards.
C16_Witness ==
    /\ last.op = "unmount"
    /\ last.step = "unbound"
    /\ panic = ""
    /\ Cardinality(Events("again")) = 2
    /\ Cardinality(Events("pfsfree")) >= 3
    /\ Devices = {}

\* ------------------------------------------------------------------------
\* The entries under the super-root behind device vnode vp that a scan
\* passes to hammer2_pfsalloc when the chains of the entries scanErr come
\* back with an error: the inodes among the others.
Scanned(vp, scanErr) ==
    {k \in 1..Len(SuperRoot(vp)) :
       SuperRoot(vp)[k].bref_type = "INODE" /\ k \notin scanErr}

\* The PFS record pm has exactly one member, on device d and named n.
SoleMember(pm, d, n) ==
    \E i \in Slots :
       /\ pm.pfs_hmps[i] = d
       /\ pm.pfs_names[i] = n
       /\ pm.chain[i] # NoChain
       /\ \A j \in Slots \ {i} : pm.pfs_hmps[j] = 0

\* C17: after a successful mount that opened the device, every inode entry
\* under its super-root whose chain had no error has one registered PFS,
\* with exactly one member, on that device, and the PFS the call has
\* registered are those of such entries and no others; a successful mount
\* on a device that was registered already leaves the members of every PFS
\* as they were and registers no PFS with a member.
C17_ScanRegisters ==
    [][(last'.op = "mount" /\ last'.error = "OK")
         => IF last'.newdev
            THEN /\ \A k \in Scanned(hmps'[last'.hmp].devvp, last'.scanErr) :
                       Cardinality({p \in Pfs' :
                           SoleMember(pmps'[p], last'.hmp,
                              SuperRoot(hmps'[last'.hmp].devvp)[k].filename)}) = 1
                 /\ \A p \in Pfs' \ Pfs :
                       \E k \in Scanned(hmps'[last'.hmp].devvp, last'.scanErr) :
                          SoleMember(pmps'[p], last'.hmp,
                              SuperRoot(hmps'[last'.hmp].devvp)[k].filename)
            ELSE /\ \A p \in Pfs :
                       /\ p \in Pfs'
                       /\ pmps'[p].pfs_hmps = pmps[p].pfs_hmps
                       /\ pmps'[p].pfs_names = pmps[p].pfs_names
                       /\ pmps'[p].chain = pmps[p].chain
                 /\ \A p \in Pfs' \ Pfs :
                       \A i \in Slots : pmps'[p].pfs_hmps[i] = 0
                 /\ hammer2_spmplist' = hammer2_spmplist]_vars

\* ------------------------------------------------------------------------
\* The steps at which a mount on a device that is registered already can
\* fail: label not found (or its lookup failed), no pmp acquired, PFS
\* already mounted.
C18_FailSteps == {"label_notfound", "no_pmp", "already"}

\* C18: a mount that matched a registered device with mount_count > 0 and
\* failed at the label lookup, at the acquisition of the pmp or at the
\* already-mounted test leaves the three lists, every device (its
\* mount_count included), every PFS and Super-PFS with its members, every
\* binding and every open of a device vnode as they were.
C18_MatchedUnwind ==
    [][(/\ last'.op = "mount"
        /\ ~last'.newdev
        /\ last'.step \in C18_FailSteps
        /\ last'.hmp \in Devices
        /\ hmps[last'.hmp].mount_count > 0)
         => /\ last'.error \in {"ENOENT", "EINVAL", "EBUSY"}
            /\ UNCHANGED <<hammer2_mntlist, hammer2_pfslist, hammer2_spmplist,
                            hmps, pmps, mnts, vopen>>]_vars

\* C18 witness: a mount that named the vnode of a registered device with
\* a bound mount has failed because no pmp was acquired (the chain of the
\* label came back with an error), and the device is registered with its
\* mount still bound.
C18_Witness ==
    /\ last.op = "mount"
    /\ last.step = "no_pmp"
    /\ last.error = "EINVAL"
    /\ ~last.newdev
    /\ last.devvpl # {}
    /\ last.hmp \in Devices
    /\ hmps[last.hmp].mount_count > 0
    /\ \E m \in MntIds : mnts[m].mnt_data # 0 /\ MemberOn(mnts[m].mnt_data, last.hmp)

\* ------------------------------------------------------------------------
\* C19: in every state, the PFS of every bound mount has a member: a slot
\* with a root chain and a device.
C19_BoundHasMember ==
    \A m \in MntIds :
       mnts[m].mnt_data # 0
         => \E i \in Slots : /\ pmps[mnts[m].mnt_data].chain[i] # NoChain
                              /\ pmps[mnts[m].mnt_data].pfs_hmps[i] # 0

\* ------------------------------------------------------------------------
\* The Super-PFS of device d: the PFS of the Super-PFS list whose slot 0
\* names d.
SpmpOf(d) == {p \in Spmps : pmps[p].pfs_hmps[0] = d}

\* C20: in every state between calls, every registered device has exactly
\* one Super-PFS, which hmp->spmp points to, which is on the Super-PFS list
\* and not on the PFS list and whose slot 0 names the device; no Super-PFS
\* has a mount handle or is the PFS of a mount; and the Super-PFS list has
\* as many entries as the device list.
C20_SuperPfs ==
    panic = ""
      => /\ \A d \in Devices :
               /\ SpmpOf(d) = {hmps[d].spmp}
               /\ hmps[d].spmp \notin Pfs
               /\ pmps[hmps[d].spmp].flags_spmp
         /\ \A p \in Spmps :
               /\ pmps[p].mp = 0
               /\ \A m \in MntIds : mnts[m].mnt_data # p
         /\ Len(hammer2_spmplist) = Len(hammer2_mntlist)
         /\ Cardinality(Spmps) = Cardinality(Devices)

\* C20 witness: two devices are registered, each with its Super-PFS, and
\* a mount is bound to a PFS of the mountable list.
C20_Witness ==
    /\ panic = ""
    /\ Cardinality(Devices) = 2
    /\ Cardinality(Spmps) = 2
    /\ \A d \in Devices : SpmpOf(d) = {hmps[d].spmp}
    /\ \E m \in MntIds : mnts[m].mnt_data \in Pfs

C22_RootResident ==
    [][/\ \A p \in (Pfs \cup Spmps)' : pmps'[p].iroot
       /\ \A m \in MntIds : mnts'[m].mnt_data # 0 => mnts'[m].mnt_data \in Pfs'
       /\ last'.op = "root" => last'.error # "EINVAL"
       /\ \A p \in PfsIds :
             (pmps[p].iroot /\ ~pmps'[p].iroot)
               => /\ p \notin (Pfs \cup Spmps)'
                  /\ \E k \in Events("pfsfree")' : last'.log[k].id = p]_vars

\* C22 witness: hammer2_root has returned 0 for a mount whose PFS is on
\* the PFS list with its root inode, after an unmount of another mount of
\* the same device.
C22_Witness ==
    /\ last.op = "root"
    /\ last.error = "OK"
    /\ last.pmp \in Pfs
    /\ pmps[last.pmp].iroot
    /\ \E p \in Pfs : pmps[p].mp = Dangling

\* ------------------------------------------------------------------------
\* C23: hammer2_fhtovp returns EINVAL without a lookup for a handle whose
\* length is not sizeof(struct hfid); for the handle hammer2_vptofh wrote
\* for an inode it decodes the inode number with the reserved highest bit
\* cleared; and when the caller wants the vnode it calls hammer2_root for
\* the decoded number 1 and hammer2_vget for every other number, returning
\* what the lookup returned.
C23_FhRoundTrip ==
    last.op = "fhtovp"
      => IF last.fh.hfid_len # SizeofHfid
         THEN last.error = "EINVAL" /\ last.lookup = "none"
         ELSE /\ last.step = "roundtrip"
                    => last.decoded = last.inum % 2^(TidBits - 1)
              /\ last.decoded = last.fh.hfid_data[0] % 2^(TidBits - 1)
              /\ last.vpp
                    => /\ last.lookup = IF last.decoded = 1 THEN "root" ELSE "vget"
                       /\ last.error \in IF last.decoded = 1
                                          THEN {"OK", "ENOMEM"} ELSE {"OK", "ENOENT"}
              /\ ~last.vpp => last.lookup = "none" /\ last.error = "OK"

\* C23 witness: the handle written for the inode whose number is 1 with
\* the reserved bit set has been decoded to 1 and looked up with
\* hammer2_root.
C23_Witness ==
    /\ last.op = "fhtovp"
    /\ last.step = "roundtrip"
    /\ last.inum = 2^(TidBits - 1) + 1
    /\ last.fh.hfid_len = SizeofHfid
    /\ last.decoded = 1
    /\ last.lookup = "root"

\* ------------------------------------------------------------------------
\* C24: when a call of mount or unmount has returned, the lock is free; the
\* call took the lock at most once and released it as often as it took it,
\* after taking it; every hammer2_unmount called from a failure path of
\* mount was called after the release, with the lock free; and the device
\* part of hammer2_unmount_helper was only entered with the lock held.
C24_LockBalanced ==
    (panic = "" /\ last.op \in {"mount", "unmount"})
      => /\ mntlk = 0
         /\ Cardinality(Events("enter")) <= 1
         /\ Cardinality(Events("exit")) = Cardinality(Events("enter"))
         /\ \A i \in Events("enter") : \E j \in Events("exit") : i < j
         /\ \A k \in Events("return") : last.log[k].lk = 0
         /\ \A k \in Events("unmount") :
               /\ last.log[k].lk = 0
               /\ \E j \in Events("exit") : j < k
         /\ \A k \in Events("teardown") \cup Events("skip") :
               /\ last.log[k].lk = 1
               /\ \E i \in Events("enter") : i < k
               /\ \E j \in Events("exit") : k < j

\* C24 witness: a mount that opened a device has failed after the device
\* was registered: it tore the device down with the lock held, released
\* the lock, called hammer2_unmount with the lock free and returned.
C24_Witness ==
    /\ last.op = "mount"
    /\ panic = ""
    /\ last.newdev
    /\ last.error \notin {"OK", "PANIC"}
    /\ mntlk = 0
    /\ \E i \in Events("enter"), t \in Events("teardown"),
          j \in Events("exit"), u \in Events("unmount") :
          i < t /\ t < j /\ j < u

(***************************************************************************)
(* C25: whenever mount or unmount has returned and the mount lock is free, *)
(* every device in the device registry has mount_count >= 1.               *)
(***************************************************************************)
C25_PositiveCount ==
    (panic = "" /\ mntlk = 0) =>
        \A d \in Devices : hmps[d].mount_count >= 1

\* A mount has returned 0 with the lock free and left the device it used in
\* the registry with mount_count 0.
C25_ZeroCountDevice ==
    ~ ( /\ panic = "" /\ mntlk = 0
        /\ last.op = "mount" /\ last.error = "OK"
        /\ last.hmp \in Devices
        /\ hmps[last.hmp].mount_count = 0 )

(***************************************************************************)
(* C26: no dangling device reference.  Every non-empty device slot of      *)
(* every PFS in the PFS list or the Super-PFS list names a device that is  *)
(* in the device registry, and every PFS in the PFS list has at least one  *)
(* such slot.                                                              *)
(***************************************************************************)
C26_NoDanglingDevice ==
    panic = "" =>
        /\ \A p \in Pfs \cup Spmps : \A i \in Slots :
              pmps[p].pfs_hmps[i] # 0 => pmps[p].pfs_hmps[i] \in Devices
        /\ \A p \in Pfs : \E i \in Slots : pmps[p].pfs_hmps[i] \in Devices

\* A PFS is in the PFS list with every device slot empty.
C26_OrphanPfs ==
    ~ ( /\ panic = ""
        /\ \E p \in Pfs : \A i \in Slots : pmps[p].pfs_hmps[i] = 0 )

(***************************************************************************)
(* C27: the attach-time assertion of hammer2_pfsalloc (nchains = 0 before  *)
(* a member is added) holds on every call, and every PFS has at most one   *)
(* member: nchains is 0 or 1 and no slot above the first is populated.     *)
(* The entries under one device's super-root have distinct names.          *)
(***************************************************************************)
C27_SingleMember ==
    /\ panic # "nchains not 0"
    /\ \A p \in PfsIds :
          pmps[p].alloc =>
              /\ pmps[p].nchains \in {0, 1}
              /\ \A i \in Slots :
                    i >= 1 => /\ pmps[p].pfs_hmps[i] = 0
                              /\ pmps[p].chain[i] = NoChain
                              /\ pmps[p].pfs_names[i] = ""

\* Two devices are registered whose super-roots hold an entry of the same
\* name, and each entry is the single member of a PFS of its own.
C27_Witness ==
    /\ panic = ""
    /\ \E p, q \in Pfs :
          /\ p # q
          /\ pmps[p].nchains = 1 /\ pmps[q].nchains = 1
          /\ pmps[p].pfs_names[0] = pmps[q].pfs_names[0]
          /\ pmps[p].pfs_hmps[0] \in Devices
          /\ pmps[q].pfs_hmps[0] \in Devices
          /\ pmps[p].pfs_hmps[0] # pmps[q].pfs_hmps[0]

(***************************************************************************)
(* C28: every time hammer2_pfsfree runs, the pmp has no populated member   *)
(* slot and nchains = 0, so its "still in use" branch is never taken:      *)
(* every reaped pmp has left its list and is deallocated, and no pmp is    *)
(* ever off both lists while still allocated.                              *)
(***************************************************************************)
C28_ReapFrees ==
    /\ panic # "pfsfree: pmp->mp"
    /\ \A p \in PfsIds : pmps[p].alloc => p \in Pfs \cup Spmps
    /\ \A k \in Events("pfsfree") :
          /\ last.log[k].same
          /\ last.log[k].count = 1
          /\ last.log[k].id \notin Pfs \cup Spmps
          /\ ~pmps[last.log[k].id].alloc

\* An unmount has reaped a PFS and the Super-PFS of its device.
C28_Witness ==
    /\ panic = ""
    /\ last.op = "unmount"
    /\ Cardinality(Events("pfsfree")) >= 2
    /\ \E k \in Events("pfsfree") : \A q \in PfsIds : ~pmps[q].alloc

(***************************************************************************)
(* C29: the temporary device-handle list built by hammer2_init_devvp is    *)
(* never leaked.  When hammer2_mount returns, no entry is left on it: each *)
(* entry has been moved to the new device's handle list or cleaned up.     *)
(***************************************************************************)
C29_NoLeakedHandles ==
    (panic = "" /\ last.op = "mount") => last.tmp = {}

\* A mount that named an already-registered device has returned 0 with the
\* entries of its temporary list neither moved nor cleaned up.
C29_LeakOnMatch ==
    ~ ( /\ panic = ""
        /\ last.op = "mount" /\ last.error = "OK"
        /\ ~last.newdev
        /\ last.devvpl # {}
        /\ last.tmp = last.devvpl )

====
